---- MODULE Spec2Model ----
(***************************************************************************)
(* Model of scnlib's boolean reader (scn/impl/reader/bool_reader.h) and of *)
(* the fuzz driver loop that calls it repeatedly (test/fuzz/fuzz.cpp).     *)
(*                                                                         *)
(* A range is a source (a sequence of code units) together with a          *)
(* position, the number of code units already consumed.  Every reader      *)
(* function takes the range and the caller's bool and returns the outcome  *)
(* (ok / error), the position of the range after the call, the bool after  *)
(* the call, and the list of match primitives it invoked.                  *)
(***************************************************************************)
EXTENDS Naturals, Sequences, FiniteSets

VARIABLES source, pos, value, last, nreads, pc

vars == <<source, pos, value, last, nreads, pc>>

(***************************************************************************)
(* Bounds                                                                  *)
(***************************************************************************)
\* longest arbitrary tail appended to a literal prefix to make a source
MaxTail == 1

(***************************************************************************)
(* Code units and strings (sequences of one-character strings)             *)
(***************************************************************************)
S_true == <<"t", "r", "u", "e">>
S_false == <<"f", "a", "l", "s", "e">>
S_TRUE == <<"T", "R", "U", "E">>
S_yes == <<"y", "e", "s">>
S_no == <<"n", "o">>
S_o == <<"o">>
S_off == <<"o", "f", "f">>
S_on == <<"o", "n">>
S_0 == <<"0">>
S_1 == <<"1">>
S_2 == <<"2">>
S_1x == <<"1", "x">>
S_1_extra == <<"1", " ", "e", "x", "t", "r", "a">>
S_yes_and_more == <<"y", "e", "s", " ", "a", "n", "d", " ", "m", "o", "r", "e">>

Prefixes(s) == { SubSeq(s, 1, n) : n \in 0..Len(s) }

IsPrefix(p, s) == Len(p) <= Len(s) /\ SubSeq(s, 1, Len(p)) = p

\* what remains of the range src from position p on
Rest(src, p) == SubSeq(src, p + 1, Len(src))

TailAlphabet == {"0", "1", "e", "f"}

RECURSIVE Strs(_)
Strs(n) == IF n = 0 THEN { <<>> }
           ELSE LET shorter == Strs(n - 1)
                IN  shorter \cup { s \o <<c>> : s \in shorter, c \in TailAlphabet }

Tails == Strs(MaxTail)

Literals == { S_true, S_false, S_TRUE, S_yes, S_no, S_off, S_on, S_1x, S_0, S_1, S_2 }

Scenarios == { S_1_extra, S_yes_and_more }

\* what a source may hold in front of the token under test
Heads == { <<>>, S_1 }

\* the inputs: every prefix of a literal (partial matches included) behind a
\* head and followed by an arbitrary short tail, and the longer scenario inputs
Sources == { h \o p \o t : h \in Heads,
                           p \in UNION { Prefixes(l) : l \in Literals },
                           t \in Tails }
           \cup Scenarios

\* (truename, falsename) pairs a numpunct facet can return
Locales == { <<S_true, S_false>>, <<S_yes, S_no>>, <<S_o, S_off>>, <<S_off, S_o>>,
             <<S_on, S_on>>, <<S_1, S_0>>, <<S_0, S_1x>>, <<S_no, <<>> >> }

\* stands for the locale_ref of a call that never looks at it
NoLocale == << <<>>, <<>> >>

(***************************************************************************)
(* Errors                                                                  *)
(***************************************************************************)
scan_error(code, msg) == [code |-> code, msg |-> msg]

\* the error field of a successful result
good == scan_error("good", "")

(***************************************************************************)
(* Match primitives (scn/impl/reader/common.h): each either matches the    *)
(* whole literal at the position and returns the position behind it, or    *)
(* fails and leaves the position where it was.  Matching is exact, code    *)
(* unit by code unit.                                                      *)
(***************************************************************************)
read_matching_code_unit(src, p, ch) ==
    IF p < Len(src) /\ src[p + 1] = ch
    THEN [ok |-> TRUE, pos |-> p + 1]
    ELSE [ok |-> FALSE, pos |-> p]

read_matching_string(src, p, str) ==
    IF p + Len(str) <= Len(src) /\ SubSeq(src, p + 1, p + Len(str)) = str
    THEN [ok |-> TRUE, pos |-> p + Len(str)]
    ELSE [ok |-> FALSE, pos |-> p]

read_matching_string_classic(src, p, str) ==
    IF p + Len(str) <= Len(src) /\ SubSeq(src, p + 1, p + Len(str)) = str
    THEN [ok |-> TRUE, pos |-> p + Len(str)]
    ELSE [ok |-> FALSE, pos |-> p]

(***************************************************************************)
(* bool_reader_base                                                        *)
(***************************************************************************)
allow_text == 1
allow_numeric == 2

\* m_options & bit, as a truth value
HasOption(m_options, bit) == (m_options \div bit) % 2 = 1

\* a strategy's outcome: tried lists the literals handed to a match primitive
Outcome(ok, p, v, err, tried) ==
    [ok |-> ok, pos |-> p, value |-> v, err |-> err, tried |-> tried]

\* faulty variant: takes a code unit off the range before comparing it
read_numeric_consuming(src, p, v) ==
    LET p1 == IF p < Len(src) THEN p + 1 ELSE p
    IN  IF p < Len(src) /\ src[p + 1] = "0"
        THEN Outcome(TRUE, p1, FALSE, good, <<S_0>>)
        ELSE IF p < Len(src) /\ src[p + 1] = "1"
        THEN Outcome(TRUE, p1, TRUE, good, <<S_0, S_1>>)
        ELSE Outcome(FALSE, p1, v,
                     scan_error("invalid_scanned_value", "read_numeric: No match"),
                     <<S_0, S_1>>)

\* faulty variant: writes the bool from the comparison with '1' before it knows
\* whether anything matched
read_numeric_early_write(src, p, v) ==
    LET r0 == read_matching_code_unit(src, p, "0")
        r1 == read_matching_code_unit(src, r0.pos, "1")
    IN  IF r0.ok THEN Outcome(TRUE, r0.pos, FALSE, good, <<S_0>>)
        ELSE IF r1.ok THEN Outcome(TRUE, r1.pos, TRUE, good, <<S_0, S_1>>)
        ELSE Outcome(FALSE, r1.pos, r1.ok,
                     scan_error("invalid_scanned_value", "read_numeric: No match"),
                     <<S_0, S_1>>)

\* faulty variant: matches '0' and '1' by looking at the code unit, without
\* advancing behind it
read_numeric_peek(src, p, v) ==
    LET r0 == read_matching_code_unit(src, p, "0")
        r1 == read_matching_code_unit(src, p, "1")
    IN  IF r0.ok THEN Outcome(TRUE, p, FALSE, good, <<S_0>>)
        ELSE IF r1.ok THEN Outcome(TRUE, p, TRUE, good, <<S_0, S_1>>)
        ELSE Outcome(FALSE, p, v,
                     scan_error("invalid_scanned_value", "read_numeric: No match"),
                     <<S_0, S_1>>)

read_numeric(src, p, v) ==
    LET r0 == read_matching_code_unit(src, p, "0")
        r1 == read_matching_code_unit(src, r0.pos, "1")
    IN  IF r0.ok THEN Outcome(TRUE, r0.pos, FALSE, good, <<S_0>>)
        ELSE IF r1.ok THEN Outcome(TRUE, r1.pos, TRUE, good, <<S_0, S_1>>)
        ELSE Outcome(FALSE, r1.pos, v,
                     scan_error("invalid_scanned_value", "read_numeric: No match"),
                     <<S_0, S_1>>)

\* faulty variant: the two assignments swapped
read_textual_classic_swapped(src, p, v) ==
    LET rt == read_matching_string_classic(src, p, S_true)
        rf == read_matching_string_classic(src, rt.pos, S_false)
    IN  IF rt.ok THEN Outcome(TRUE, rt.pos, FALSE, good, <<S_true>>)
        ELSE IF rf.ok THEN Outcome(TRUE, rf.pos, TRUE, good, <<S_true, S_false>>)
        ELSE Outcome(FALSE, rf.pos, v,
                     scan_error("invalid_scanned_value", "read_textual: No match"),
                     <<S_true, S_false>>)

read_textual_classic(src, p, v) ==
    LET rt == read_matching_string_classic(src, p, S_true)
        rf == read_matching_string_classic(src, rt.pos, S_false)
    IN  IF rt.ok THEN Outcome(TRUE, rt.pos, TRUE, good, <<S_true>>)
        ELSE IF rf.ok THEN Outcome(TRUE, rf.pos, FALSE, good, <<S_true, S_false>>)
        ELSE Outcome(FALSE, rf.pos, v,
                     scan_error("invalid_scanned_value", "read_textual: No match"),
                     <<S_true, S_false>>)

(***************************************************************************)
(* bool_reader<CharT>                                                      *)
(***************************************************************************)
\* faulty variant: assigns the boolean of the spelling tried first whichever matched
read_textual_custom_first_value(src, p, v, truename, falsename) ==
    LET is_truename_shorter == Len(truename) <= Len(falsename)
        shorter == <<IF is_truename_shorter THEN truename ELSE falsename,
                     is_truename_shorter>>
        longer == <<IF ~is_truename_shorter THEN truename ELSE falsename,
                    ~is_truename_shorter>>
        rs == read_matching_string(src, p, shorter[1])
        rl == read_matching_string(src, rs.pos, longer[1])
    IN  IF rs.ok THEN Outcome(TRUE, rs.pos, shorter[2], good, <<shorter[1]>>)
        ELSE IF rl.ok
        THEN Outcome(TRUE, rl.pos, shorter[2], good, <<shorter[1], longer[1]>>)
        ELSE Outcome(FALSE, rl.pos, v,
                     scan_error("invalid_scanned_value", "read_textual: No match"),
                     <<shorter[1], longer[1]>>)

\* faulty variant: tries the longer spelling first
read_textual_custom_longest_first(src, p, v, truename, falsename) ==
    LET is_truename_shorter == Len(truename) <= Len(falsename)
        shorter == <<IF is_truename_shorter THEN truename ELSE falsename,
                     is_truename_shorter>>
        longer == <<IF ~is_truename_shorter THEN truename ELSE falsename,
                    ~is_truename_shorter>>
        rl == read_matching_string(src, p, longer[1])
        rs == read_matching_string(src, rl.pos, shorter[1])
    IN  IF rl.ok THEN Outcome(TRUE, rl.pos, longer[2], good, <<longer[1]>>)
        ELSE IF rs.ok
        THEN Outcome(TRUE, rs.pos, shorter[2], good, <<longer[1], shorter[1]>>)
        ELSE Outcome(FALSE, rs.pos, v,
                     scan_error("invalid_scanned_value", "read_textual: No match"),
                     <<longer[1], shorter[1]>>)

read_textual_custom(src, p, v, truename, falsename) ==
    LET is_truename_shorter == Len(truename) <= Len(falsename)
        shorter == <<IF is_truename_shorter THEN truename ELSE falsename,
                     is_truename_shorter>>
        longer == <<IF ~is_truename_shorter THEN truename ELSE falsename,
                    ~is_truename_shorter>>
        rs == read_matching_string(src, p, shorter[1])
        rl == read_matching_string(src, rs.pos, longer[1])
    IN  IF rs.ok THEN Outcome(TRUE, rs.pos, shorter[2], good, <<shorter[1]>>)
        ELSE IF rl.ok
        THEN Outcome(TRUE, rl.pos, longer[2], good, <<shorter[1], longer[1]>>)
        ELSE Outcome(FALSE, rl.pos, v,
                     scan_error("invalid_scanned_value", "read_textual: No match"),
                     <<shorter[1], longer[1]>>)

\* a read's result: the outcome, the strategies run in order, and the literals
\* each of them tried
Result(ok, p, v, err, strategies, numeric, textual) ==
    [ok |-> ok, pos |-> p, value |-> v, err |-> err,
     strategies |-> strategies, numeric |-> numeric, textual |-> textual]

\* faulty variant: the textual block in front of the numeric one
read_localized_text_first(m_options, src, loc, p, v) ==
    LET err0 == scan_error("invalid_scanned_value", "Failed to read boolean")
        num == HasOption(m_options, allow_numeric)
        txt == HasOption(m_options, allow_text)
        rt == read_textual_custom(src, p, v, loc[1], loc[2])
        p1 == IF txt THEN rt.pos ELSE p
        v1 == IF txt THEN rt.value ELSE v
        err1 == IF txt THEN rt.err ELSE err0
        s1 == IF txt THEN <<"textual">> ELSE <<>>
        t1 == IF txt THEN rt.tried ELSE <<>>
        rn == read_numeric(src, p1, v1)
    IN  IF txt /\ rt.ok
        THEN Result(TRUE, rt.pos, rt.value, good, s1, <<>>, t1)
        ELSE IF num /\ rn.ok
        THEN Result(TRUE, rn.pos, rn.value, good, s1 \o <<"numeric">>, rn.tried, t1)
        ELSE IF num
        THEN Result(FALSE, rn.pos, rn.value, rn.err, s1 \o <<"numeric">>, rn.tried, t1)
        ELSE Result(FALSE, p1, v1, err1, s1, <<>>, t1)

read_localized(m_options, src, loc, p, v) ==
    LET err0 == scan_error("invalid_scanned_value", "Failed to read boolean")
        num == HasOption(m_options, allow_numeric)
        txt == HasOption(m_options, allow_text)
        rn == read_numeric(src, p, v)
        \* the range, the bool and err behind the numeric block
        p1 == IF num THEN rn.pos ELSE p
        v1 == IF num THEN rn.value ELSE v
        err1 == IF num THEN rn.err ELSE err0
        s1 == IF num THEN <<"numeric">> ELSE <<>>
        t1 == IF num THEN rn.tried ELSE <<>>
        truename == loc[1]
        falsename == loc[2]
        rt == read_textual_custom(src, p1, v1, truename, falsename)
    IN  IF num /\ rn.ok
        THEN Result(TRUE, rn.pos, rn.value, good, s1, t1, <<>>)
        ELSE IF txt /\ rt.ok
        THEN Result(TRUE, rt.pos, rt.value, good, s1 \o <<"textual">>, t1, rt.tried)
        ELSE IF txt
        THEN Result(FALSE, rt.pos, rt.value, rt.err, s1 \o <<"textual">>, t1, rt.tried)
        ELSE Result(FALSE, p1, v1, err1, s1, t1, <<>>)

(***************************************************************************)
(* bool_reader_base::read_classic (defined behind read_textual_classic in  *)
(* the source's order of use)                                              *)
(***************************************************************************)
\* faulty variant: keeps the first strategy's error instead of overwriting it
read_classic_first_error(m_options, src, p, v) ==
    LET err0 == scan_error("invalid_scanned_value", "Failed to read boolean")
        num == HasOption(m_options, allow_numeric)
        txt == HasOption(m_options, allow_text)
        rn == read_numeric(src, p, v)
        p1 == IF num THEN rn.pos ELSE p
        v1 == IF num THEN rn.value ELSE v
        err1 == IF num THEN rn.err ELSE err0
        s1 == IF num THEN <<"numeric">> ELSE <<>>
        t1 == IF num THEN rn.tried ELSE <<>>
        rt == read_textual_classic(src, p1, v1)
    IN  IF num /\ rn.ok
        THEN Result(TRUE, rn.pos, rn.value, good, s1, t1, <<>>)
        ELSE IF txt /\ rt.ok
        THEN Result(TRUE, rt.pos, rt.value, good, s1 \o <<"textual">>, t1, rt.tried)
        ELSE IF txt
        THEN Result(FALSE, rt.pos, rt.value, IF num THEN err1 ELSE rt.err,
                    s1 \o <<"textual">>, t1, rt.tried)
        ELSE Result(FALSE, p1, v1, err1, s1, t1, <<>>)

read_classic(m_options, src, p, v) ==
    LET err0 == scan_error("invalid_scanned_value", "Failed to read boolean")
        num == HasOption(m_options, allow_numeric)
        txt == HasOption(m_options, allow_text)
        rn == read_numeric(src, p, v)
        \* the range, the bool and err behind the numeric block
        p1 == IF num THEN rn.pos ELSE p
        v1 == IF num THEN rn.value ELSE v
        err1 == IF num THEN rn.err ELSE err0
        s1 == IF num THEN <<"numeric">> ELSE <<>>
        t1 == IF num THEN rn.tried ELSE <<>>
        rt == read_textual_classic(src, p1, v1)
    IN  IF num /\ rn.ok
        THEN Result(TRUE, rn.pos, rn.value, good, s1, t1, <<>>)
        ELSE IF txt /\ rt.ok
        THEN Result(TRUE, rt.pos, rt.value, good, s1 \o <<"textual">>, t1, rt.tried)
        ELSE IF txt
        THEN Result(FALSE, rt.pos, rt.value, rt.err, s1 \o <<"textual">>, t1, rt.tried)
        ELSE Result(FALSE, p1, v1, err1, s1, t1, <<>>)

(***************************************************************************)
(* reader<bool, CharT>                                                     *)
(***************************************************************************)
\* detail::presentation_type values a format spec can carry; "none" is the
\* default one
PresentationTypes == { "none", "string", "int_generic", "int_hex", "character",
                       "float_general" }

\* a basic_format_specs, as far as the reader reads it; width stands for the
\* fields it never reads
FormatSpecs == [type : PresentationTypes, localized : BOOLEAN, width : {0, 1}]

\* faulty variant: the int_generic case left out of the switch
get_options_no_int_generic(specs) ==
    CASE specs.type = "string" -> allow_text
      [] OTHER -> allow_text + allow_numeric

get_options(specs) ==
    CASE specs.type = "string" -> allow_text
      [] specs.type = "int_generic" -> allow_numeric
      [] OTHER -> allow_text + allow_numeric

\* m_options{allow_text | allow_numeric} of a default-constructed bool_reader
default_options == allow_text + allow_numeric

read_default(src, p, v, loc) == read_classic(default_options, src, p, v)

\* faulty variant: never looks at specs.localized
read_specs_never_localized(src, p, specs, v, loc) ==
    read_classic(get_options(specs), src, p, v)

read_specs(src, p, specs, v, loc) ==
    IF specs.localized
    THEN read_localized(get_options(specs), src, loc, p, v)
    ELSE read_classic(get_options(specs), src, p, v)

(***************************************************************************)
(* Calls.  Under Spec a caller hands one of the four read functions a      *)
(* range that stands anywhere in a source, and the call returns.  Under    *)
(* FuzzSpec run<bool> of the fuzz driver reads from the start of the       *)
(* source, again and again from where the previous read stopped, until a   *)
(* read fails.                                                             *)
(***************************************************************************)
\* every option word over the two option bits and one stray bit
OptionWords == 0 .. 7

NoSpecs == [type |-> "none", localized |-> FALSE, width |-> 0]

NoCall == [op |-> "none", options |-> 0, loc |-> NoLocale, specs |-> NoSpecs,
           pos0 |-> 0,
           r |-> Result(TRUE, 0, FALSE, good, <<>>, <<>>, <<>>)]

Init ==
    /\ source \in Sources
    /\ pos \in 0 .. Len(source)
    /\ value \in BOOLEAN
    /\ last = NoCall
    /\ nreads = 0
    /\ pc = "ready"

\* what a call leaves behind: the range and the bool as the function left
\* them, and the record of the call
Call(op, options, loc, specs, r) ==
    /\ pos' = r.pos
    /\ value' = r.value
    /\ last' = [op |-> op, options |-> options, loc |-> loc, specs |-> specs,
                pos0 |-> pos, r |-> r]
    /\ nreads' = IF r.ok THEN nreads + 1 ELSE nreads
    /\ UNCHANGED source

ReadClassic ==
    /\ pc = "ready"
    /\ \E m_options \in OptionWords :
          Call("read_classic", m_options, NoLocale, NoSpecs,
               read_classic(m_options, source, pos, value))
    /\ pc' = "returned"

ReadLocalized ==
    /\ pc = "ready"
    /\ \E m_options \in OptionWords, loc \in Locales :
          Call("read_localized", m_options, loc, NoSpecs,
               read_localized(m_options, source, loc, pos, value))
    /\ pc' = "returned"

ReadDefault ==
    /\ pc = "ready"
    /\ \E loc \in Locales :
          Call("read_default", default_options, NoLocale, NoSpecs,
               read_default(source, pos, value, loc))
    /\ pc' = "returned"

ReadSpecs ==
    /\ pc = "ready"
    /\ \E specs \in FormatSpecs, loc \in Locales :
          Call("read_specs", get_options(specs),
               IF specs.localized THEN loc ELSE NoLocale, specs,
               read_specs(source, pos, specs, value, loc))
    /\ pc' = "returned"

Next == ReadClassic \/ ReadLocalized \/ ReadDefault \/ ReadSpecs

Spec == Init /\ [][Next]_vars

\* run<bool>: T val{} and the whole source before the loop
FuzzInit ==
    /\ source \in Sources
    /\ pos = 0
    /\ value = FALSE
    /\ last = NoCall
    /\ nreads = 0
    /\ pc = "loop"

\* one turn of while (true): scan_default on result.range(), break on failure
FuzzRead ==
    /\ pc = "loop"
    /\ LET r == read_default(source, pos, value, NoLocale)
       IN  /\ Call("read_default", default_options, NoLocale, NoSpecs, r)
           /\ pc' = IF r.ok THEN "loop" ELSE "done"

\* the loop has nothing to wait for: its body runs as long as it is inside
FuzzSpec == FuzzInit /\ [][FuzzRead]_vars /\ WF_vars(FuzzRead)

(***************************************************************************)
(* Properties                                                              *)
(***************************************************************************)
\* a call has returned and last describes it
Returned == last.op # "none"

\* the input the last call was handed, and how much of it the call consumed
Input == Rest(source, last.pos0)

Failed == Returned /\ ~last.r.ok
Succeeded == Returned /\ last.r.ok

StartsWith(str) == IsPrefix(str, Input)

NumericOn == HasOption(last.options, allow_numeric)
TextOn == HasOption(last.options, allow_text)

\* C1: whenever read_classic, read_localized, read_default or read_specs
\* returns an error, the position after the call is the position before it
C1_Backtracking == Failed => pos = last.pos0

\* a localized read from inside a source fails after the numeric strategy and
\* both spellings have been tried, the shorter spelling matching in part
C1_Witness ==
    /\ Failed
    /\ last.op = "read_localized"
    /\ last.pos0 > 0
    /\ last.r.strategies = <<"numeric", "textual">>
    /\ Len(last.r.textual) = 2
    /\ Input # <<>>
    /\ IsPrefix(Input, last.loc[2])

\* C2: with allow_numeric set, an input starting with '0' yields false and one
\* starting with '1' yields true, one code unit is consumed, and the textual
\* strategy is not attempted, whatever the locale spellings are
C2_NumericPriority ==
    (Returned /\ NumericOn /\ (StartsWith(S_0) \/ StartsWith(S_1))) =>
        /\ last.r.ok
        /\ value = StartsWith(S_1)
        /\ pos = last.pos0 + 1
        /\ last.r.strategies = <<"numeric">>
        /\ last.r.textual = <<>>

\* a localized read with both options on input "0..." under a locale whose
\* true spelling is "0"
C2_Witness ==
    /\ Succeeded
    /\ last.op = "read_localized"
    /\ NumericOn /\ TextOn
    /\ last.loc = <<S_0, S_1x>>
    /\ StartsWith(S_0)
    /\ value = FALSE

\* C3: with allow_text set, read_classic and read_default on input starting
\* with "true" yield true and advance 4 code units, on input starting with
\* "false" yield false and advance 5; an input starting with neither literal
\* nor, with numeric enabled, '0' or '1', fails with invalid_scanned_value
C3_ClassicTextual ==
    (Returned /\ last.op \in {"read_classic", "read_default"} /\ TextOn) =>
        /\ StartsWith(S_true) =>
              last.r.ok /\ value = TRUE /\ pos = last.pos0 + 4
        /\ StartsWith(S_false) =>
              last.r.ok /\ value = FALSE /\ pos = last.pos0 + 5
        /\ (/\ ~StartsWith(S_true)
            /\ ~StartsWith(S_false)
            /\ ~(NumericOn /\ (StartsWith(S_0) \/ StartsWith(S_1)))) =>
              ~last.r.ok /\ last.r.err.code = "invalid_scanned_value"

\* read_default from inside a source on "false" followed by more input
C3_Witness ==
    /\ Succeeded
    /\ last.op = "read_default"
    /\ last.pos0 > 0
    /\ StartsWith(S_false)
    /\ Len(Input) > 5
    /\ value = FALSE
    /\ Rest(source, pos) = Rest(Input, 5)

\* C4: get_options depends on the presentation type alone: string gives
\* allow_text only, int_generic allow_numeric only, every other type both; it
\* is never the empty option set
C4_GetOptions ==
    (Returned /\ last.op = "read_specs") =>
        /\ last.specs.type = "string" => TextOn /\ ~NumericOn
        /\ last.specs.type = "int_generic" => ~TextOn /\ NumericOn
        /\ last.specs.type \notin {"string", "int_generic"} => TextOn /\ NumericOn
        /\ last.options \in {allow_text, allow_numeric, allow_text + allow_numeric}
        /\ \A other \in FormatSpecs :
              other.type = last.specs.type => get_options(other) = last.options

\* a localized read_specs with a presentation type that is neither string nor
\* int_generic nor the default one
C4_Witness ==
    /\ Returned
    /\ last.op = "read_specs"
    /\ last.specs = [type |-> "int_hex", localized |-> TRUE, width |-> 1]
    /\ TextOn /\ NumericOn

\* what the routing of read_specs promises: the localized matcher exactly when
\* specs.localized is set, the classic one otherwise, under the options of the
\* presentation type
C5_Routing ==
    LET options == CASE last.specs.type = "string" -> allow_text
                     [] last.specs.type = "int_generic" -> allow_numeric
                     [] OTHER -> allow_text + allow_numeric
    IN  \E v \in BOOLEAN :
           last.r = IF last.specs.localized
                    THEN read_localized(options, source, last.loc, last.pos0, v)
                    ELSE read_classic(options, source, last.pos0, v)

\* C5 as stated: read_specs routes by specs.localized under the options of
\* get_options; with int_generic an input not starting with '0' or '1' fails,
\* with string an input starting with '0' or '1' fails, the position unchanged
C5_Original ==
    (Returned /\ last.op = "read_specs") =>
        /\ C5_Routing
        /\ (last.specs.type = "int_generic"
              /\ ~StartsWith(S_0) /\ ~StartsWith(S_1)) =>
              ~last.r.ok /\ pos = last.pos0
        /\ (last.specs.type = "string"
              /\ (StartsWith(S_0) \/ StartsWith(S_1))) =>
              ~last.r.ok /\ pos = last.pos0

\* C5 as amended: with string an input starting with '0' or '1' fails unless
\* specs.localized is set and the input starts with one of the locale's
\* spellings
C5_Amended ==
    (Returned /\ last.op = "read_specs") =>
        /\ C5_Routing
        /\ (last.specs.type = "int_generic"
              /\ ~StartsWith(S_0) /\ ~StartsWith(S_1)) =>
              ~last.r.ok /\ pos = last.pos0
        /\ (last.specs.type = "string"
              /\ (StartsWith(S_0) \/ StartsWith(S_1))
              /\ ~(last.specs.localized
                     /\ (StartsWith(last.loc[1]) \/ StartsWith(last.loc[2])))) =>
              ~last.r.ok /\ pos = last.pos0

\* a localized read_specs with type string fails on "1..." under a locale
\* whose spellings are "yes" and "no"
C5_Witness ==
    /\ Failed
    /\ last.op = "read_specs"
    /\ last.specs.type = "string"
    /\ last.specs.localized
    /\ last.loc = <<S_yes, S_no>>
    /\ StartsWith(S_1)
    /\ last.r.strategies = <<"textual">>
\* the locale's two spellings in the order of their lengths, the true
\* spelling first when they are equally long
Shorter == IF Len(last.loc[1]) <= Len(last.loc[2]) THEN last.loc[1] ELSE last.loc[2]
Longer == IF Len(last.loc[1]) <= Len(last.loc[2]) THEN last.loc[2] ELSE last.loc[1]
ShorterValue == Len(last.loc[1]) <= Len(last.loc[2])

\* the last call ran the localized textual strategy
TextualCustomRan ==
    /\ Returned
    /\ last.op = "read_localized"
    /\ "textual" \in { last.r.strategies[i] : i \in DOMAIN last.r.strategies }

\* C6: read_localized with allow_text tries the shorter spelling first and the
\* longer one only if the shorter fails, assigns the boolean of the spelling
\* that matched and advances that spelling's length; with ("yes", "no"): "no"
\* gives false and 2 units, "yes and more" true and 3 units, "y" fails
C6_TieBreak ==
    (Returned /\ last.op = "read_localized" /\ TextOn) =>
        /\ ~(NumericOn /\ (StartsWith(S_0) \/ StartsWith(S_1))) => TextualCustomRan
        /\ TextualCustomRan =>
              /\ last.r.textual \in { <<Shorter>>, <<Shorter, Longer>> }
              /\ Len(last.r.textual) = 2 <=> ~StartsWith(Shorter)
              /\ last.r.ok <=> (StartsWith(Shorter) \/ StartsWith(Longer))
              /\ last.r.ok =>
                    LET matched == last.r.textual[Len(last.r.textual)]
                    IN  /\ StartsWith(matched)
                        /\ pos = last.pos0 + Len(matched)
                        /\ value = TRUE => matched = last.loc[1]
                        /\ value = FALSE => matched = last.loc[2]
        /\ last.loc = <<S_yes, S_no>> =>
              /\ Input = S_no => last.r.ok /\ value = FALSE /\ pos = last.pos0 + 2
              /\ Input = S_yes_and_more =>
                    /\ last.r.ok /\ value = TRUE /\ pos = last.pos0 + 3
                    /\ Rest(source, pos) = Rest(S_yes_and_more, 3)
              /\ Input = <<"y">> =>
                    ~last.r.ok /\ last.r.err.code = "invalid_scanned_value"

\* "yes and more" under ("yes", "no"): the longer spelling matches after the
\* shorter one has failed
C6_Witness ==
    /\ Succeeded
    /\ last.op = "read_localized"
    /\ last.loc = <<S_yes, S_no>>
    /\ Input = S_yes_and_more
    /\ last.r.textual = <<S_no, S_yes>>
    /\ value = TRUE

\* C7: a failing read returns the error of the last strategy attempted: the
\* textual one's if allow_text is set, the numeric one's if only allow_numeric
\* is set, the generic one, no strategy run, if neither is set; the kind is
\* always invalid_scanned_value
C7_ErrorOrder ==
    (Returned /\ last.op \in {"read_classic", "read_localized"}) =>
        /\ (~TextOn /\ ~NumericOn) => ~last.r.ok
        /\ ~last.r.ok =>
              /\ last.r.err.code = "invalid_scanned_value"
              /\ TextOn =>
                    /\ last.r.err.msg = "read_textual: No match"
                    /\ last.r.strategies =
                          IF NumericOn THEN <<"numeric", "textual">> ELSE <<"textual">>
              /\ (~TextOn /\ NumericOn) =>
                    /\ last.r.err.msg = "read_numeric: No match"
                    /\ last.r.strategies = <<"numeric">>
              /\ (~TextOn /\ ~NumericOn) =>
                    /\ last.r.err.msg = "Failed to read boolean"
                    /\ last.r.strategies = <<>>

\* read_classic with both options fails after both strategies were tried
C7_Witness ==
    /\ Failed
    /\ last.op = "read_classic"
    /\ TextOn /\ NumericOn
    /\ last.r.strategies = <<"numeric", "textual">>
    /\ last.r.err.msg = "read_textual: No match"

\* the token a successful call consumed
Token == SubSeq(source, last.pos0 + 1, pos)

\* the boolean a token stands for under the strategy that matched it
TokenValue ==
    IF last.r.strategies[Len(last.r.strategies)] = "numeric" THEN Token = S_1
    ELSE IF last.loc = NoLocale THEN Token = S_true
    ELSE IF last.loc[1] = last.loc[2] THEN TRUE
    ELSE Token = last.loc[1]

\* C8: a call that returns an error leaves the caller's bool as it was, and a
\* call that succeeds leaves the value of the token it consumed
C8_ValueWrite ==
    [][ /\ ~last'.r.ok => value' = value
        /\ last'.r.ok => value' = TokenValue' ]_vars

\* a read that tried both strategies and failed, the bool still true
C8_Witness ==
    /\ Failed
    /\ last.r.strategies = <<"numeric", "textual">>
    /\ Input # <<>>
    /\ value = TRUE

\* C9: when the shorter spelling is a prefix of the longer one, the localized
\* textual match of an input starting with the longer spelling succeeds on the
\* shorter one, with its boolean and its length; the longer spelling's value
\* is never produced
C9_PrefixAmbiguity ==
    (TextualCustomRan /\ IsPrefix(Shorter, Longer)) =>
        /\ StartsWith(Longer) =>
              /\ last.r.ok
              /\ last.r.textual = <<Shorter>>
              /\ value = ShorterValue
              /\ pos = last.pos0 + Len(Shorter)
        /\ last.r.ok => value = ShorterValue

\* "off..." under true = "o", false = "off" reads as true, one unit consumed
C9_Witness ==
    /\ Succeeded
    /\ last.op = "read_localized"
    /\ last.loc = <<S_o, S_off>>
    /\ StartsWith(S_off)
    /\ value = TRUE
    /\ pos = last.pos0 + 1
\* what holds of the fuzz loop in every state: a successful read has consumed
\* at least one code unit, a read on empty input has failed, no more reads
\* have succeeded than the source has code units, and the loop is left on a
\* failure that stands where the last success left the range
C10_Safe ==
    /\ Succeeded => pos > last.pos0
    /\ (Returned /\ Input = <<>>) => ~last.r.ok
    /\ \A m_options \in OptionWords :
          LET r == read_classic(m_options, source, pos, value)
          IN  /\ r.ok => r.pos > pos
              /\ pos = Len(source) => ~r.ok
    /\ nreads <= Len(source)
    /\ nreads <= pos
    /\ pc = "done" => Failed /\ pos = last.pos0
    /\ pc = "loop" => ~Failed

\* C10: every successful classic read consumes at least one code unit and a
\* read on empty input fails, so the loop that calls read_default from where
\* the previous success stopped ends, after at most Len(source) successful
\* reads, with a failure at the position of the last success
C10_Progress == [](C10_Safe) /\ <>(pc = "done")

\* the loop has ended after two successful reads, input left unread
C10_Witness == pc = "done" /\ nreads = 2 /\ pos = 5 /\ pos < Len(source)

====
